---- MODULE Spec2Model ----
(***************************************************************************)
(* Model of the tutorial chat server (server2.py, session_manager.py,      *)
(* db.py): the Session Registry, the Room Directory, the per-connection    *)
(* command loops, the chat-session timer threads and the attendance table. *)
(*                                                                         *)
(* One worker thread serves each connection and one timer thread runs per  *)
(* started chat; threads interleave between the steps modelled as actions. *)
(* Sockets are the integer handles the transport returns; tokens and chat  *)
(* session ids (uuid4 in the code) are fresh numbers drawn from counters.  *)
(* Time is counted in minutes and starts above 0 (time.time() is never 0,  *)
(* the value db.py uses as the "never joined" mark of first_join_time).    *)
(***************************************************************************)
EXTENDS Integers, Sequences, FiniteSets, TLC

\* ---------------------------------------------------------------- bounds
MaxConns == 4
MaxLogins == 3
MaxTokens == 3
MaxChats == 2
MaxTime == 7
MaxChatTime == 3
MaxSteps == 7
MaxProtocolSteps == 5
VisitLog == 3

\* ------------------------------------------------------ program constants
WarnBefore == 5

Sockets == 1..MaxConns
NoSocket == 0
Tokens == 1..MaxTokens
NoToken == 0
ChatIds == 1..MaxChats

\* ------------------------------------------------- persistent user table
Tutors == {"t1", "t2"}
Students == {"s1", "s2"}
Admins == {"a1", "a2"}
Users == Tutors \cup Students \cup Admins
NoUser == "none"
Tutorials == {"T1"}

get_user_role(u) ==
    IF u \in Tutors THEN "tutor" ELSE IF u \in Students THEN "student"
    ELSE IF u \in Admins THEN "admin" ELSE "none"

\* Durations a tutor may send with START_CHAT: int(parts[3]) accepts any integer.
Durations == {-1, 2, 6}
\* a chat longer than the horizon of the chat scenarios
LongDuration == 60

VARIABLES
    now,                \* wall clock, minutes
    conn,               \* per socket handle: the worker thread serving it
    sock,               \* per socket handle: transport state
    active_sessions,    \* SessionManager.active_sessions: user_id -> session
    session_lookup,     \* SessionManager.session_lookup: session_id -> user_id
    socket_to_session,  \* SessionManager.socket_to_session: socket -> session_id
    nextToken,          \* next fresh uuid4 for a login session
    assignments,        \* table assignments: set of <<user_id, tutorial_id>>
    active_chats,       \* table active_chats: set of rows
    attendance,         \* table attendance: <<chat_session_id, student_id>> -> row
    nextChat,           \* next fresh uuid4 for a chat session
    rooms,              \* ChatRoomManager.rooms: tutorial_id -> room
    timers,             \* one timer thread per started chat
    endedBy,            \* history: how each chat session's row was deleted
    visits,             \* history: the JOIN_CHAT/LEAVE_CHAT of each student per chat
    out,                \* what the last step sent: the reply and the pushes
    steps               \* number of steps taken where a scenario bounds them, else -1

regVars == <<active_sessions, session_lookup, socket_to_session, nextToken>>
dbVars == <<assignments, active_chats, attendance, nextChat>>
vars == <<now, conn, sock, active_sessions, session_lookup, socket_to_session,
          nextToken, assignments, active_chats, attendance, nextChat, rooms,
          timers, endedBy, visits, out, steps>>

\* ------------------------------------------------------------ Session Registry
NoSession == [session_id |-> NoToken, socket |-> NoSocket]

\* fault: the already-logged-in check is skipped
never_logged_in(u) == FALSE

\* SessionManager.user_has_active_session
user_has_active_session(u) == active_sessions[u] # NoSession

\* SessionManager.get_session_by_id: the session stored for the token's user
\* (which may carry another token), or NoSession.
get_session_by_id(sid) ==
    IF sid \in Tokens /\ session_lookup[sid] # NoUser
    THEN active_sessions[session_lookup[sid]]
    ELSE NoSession

\* the user_id of the session get_session_by_id returns
session_user(sid) ==
    IF get_session_by_id(sid) # NoSession THEN session_lookup[sid] ELSE NoUser

\* SessionManager.get_session_by_socket (the user it resolves to)
get_session_by_socket(s) ==
    IF s \in Sockets /\ socket_to_session[s] # NoToken
    THEN get_session_by_id(socket_to_session[s])
    ELSE NoSession

\* SessionManager.create_session: the three indices after the call
create_session(u, sid, s) ==
    /\ active_sessions' = [active_sessions EXCEPT ![u] = [session_id |-> sid, socket |-> s]]
    /\ session_lookup' = [session_lookup EXCEPT ![sid] = u]
    /\ socket_to_session' = [socket_to_session EXCEPT ![s] = sid]

\* SessionManager.end_session
end_session(sid) ==
    LET u == session_lookup[sid] IN
    IF u # NoUser
    THEN /\ session_lookup' = [session_lookup EXCEPT ![sid] = NoUser]
         /\ active_sessions' = [active_sessions EXCEPT ![u] = NoSession]
         /\ socket_to_session' =
                IF active_sessions[u] # NoSession /\ active_sessions[u].socket # NoSocket
                THEN [socket_to_session EXCEPT ![active_sessions[u].socket] = NoToken]
                ELSE socket_to_session
    ELSE UNCHANGED <<session_lookup, active_sessions, socket_to_session>>

\* SessionManager.update_socket succeeds
update_socket_ok(sid) == session_lookup[sid] # NoUser /\ active_sessions[session_lookup[sid]] # NoSession

\* SessionManager.update_socket: the indices after a successful call
update_socket(sid, s) ==
    LET u == session_lookup[sid]
        old == active_sessions[u].socket
        cleared == IF old # NoSocket THEN [socket_to_session EXCEPT ![old] = NoToken]
                   ELSE socket_to_session
    IN /\ active_sessions' = [active_sessions EXCEPT ![u].socket = s]
       /\ socket_to_session' = [cleared EXCEPT ![s] = sid]
       /\ UNCHANGED session_lookup

\* ------------------------------------------------------------ Room Directory
\* A room is the ordered dict of its users (insertion order), each with a
\* primary and a chat slot; exists is "tutorial_id in self.rooms".
NoRoom == [exists |-> FALSE, users |-> <<>>]
EmptyRoom == [exists |-> TRUE, users |-> <<>>]

RoomUsers(r) == {r.users[i].uid : i \in 1..Len(r.users)}
IndexOf(r, u) == CHOOSE i \in 1..Len(r.users) : r.users[i].uid = u
Slots(r, u) == r.users[IndexOf(r, u)]

\* self.rooms[tutorial_id] on the defaultdict: reading a missing key creates it
touch_room(r) == IF r.exists THEN r ELSE EmptyRoom

\* ChatRoomManager.add_socket. The socket found in the slot is an integer
\* handle, so existing_socket.close() raises AttributeError, which the bare
\* except swallows: the replaced socket stays as it was.
add_socket(r, u, s, is_chat_socket) ==
    LET r1 == touch_room(r)
        r2 == IF u \in RoomUsers(r1) THEN r1
              ELSE [r1 EXCEPT !.users = Append(@, [uid |-> u, primary |-> NoSocket, chat |-> NoSocket])]
        i == IndexOf(r2, u)
    IN IF is_chat_socket THEN [r2 EXCEPT !.users[i].chat = s]
       ELSE [r2 EXCEPT !.users[i].primary = s]

\* fault: the close of the replaced socket closes the handle
closesocket(state) == "closed"

\* existing_socket.close() in add_socket (server2.py:54-60), on the transport
\* state of the handle: an int has no close(), the AttributeError is swallowed
existing_socket_close(state) == state

\* The transport states after add_socket: the socket found in the targeted
\* slot, whichever it is, goes through the close attempt (server2.py:53-60).
add_socket_closes(r, u, is_chat_socket) ==
    LET existing_socket == IF u \in RoomUsers(r)
                           THEN (IF is_chat_socket THEN Slots(r, u).chat ELSE Slots(r, u).primary)
                           ELSE NoSocket
    IN IF existing_socket # NoSocket
       THEN [sock EXCEPT ![existing_socket] = existing_socket_close(@)]
       ELSE sock

\* ChatRoomManager.remove_dead_socket
remove_dead_socket(r, dead) ==
    IF ~r.exists THEN r
    ELSE [r EXCEPT !.users = [i \in 1..Len(r.users) |->
            [uid |-> r.users[i].uid,
             primary |-> IF r.users[i].primary = dead THEN NoSocket ELSE r.users[i].primary,
             chat |-> IF r.users[i].chat = dead THEN NoSocket ELSE r.users[i].chat]]]

RECURSIVE remove_dead_sockets(_, _)
remove_dead_sockets(r, deads) ==
    IF deads = {} THEN r
    ELSE LET d == CHOOSE x \in deads : TRUE
         IN remove_dead_sockets(remove_dead_socket(r, d), deads \ {d})

\* ChatRoomManager.get_primary_sockets
get_primary_sockets(r, exclude_user_id) ==
    {r.users[i].primary : i \in {j \in 1..Len(r.users) :
        r.users[j].uid # exclude_user_id /\ r.users[j].primary # NoSocket}}

\* ChatRoomManager.get_chat_sockets
get_chat_sockets(r, exclude_user_id) ==
    {r.users[i].chat : i \in {j \in 1..Len(r.users) :
        r.users[j].uid # exclude_user_id /\ r.users[j].chat # NoSocket}}

\* ChatRoomManager.remove_user
remove_user(r, u) ==
    IF r.exists /\ u \in RoomUsers(r)
    THEN [r EXCEPT !.users = SelectSeq(@, LAMBDA e : e.uid # u)]
    ELSE r

\* ChatRoomManager.close_room: close() on the integer handles raises and is
\* swallowed; the room is deleted.
close_room(r) == NoRoom

\* ChatRoomManager.is_active
is_active(r) == r.exists /\ Len(r.users) > 0

\* send_data returns OK exactly on the sockets whose connection is up
Deliver(S) == {s \in S : sock[s] = "open"}
Push(S, kind) == {<<s, kind>> : s \in Deliver(S)}

\* ------------------------------------------------------------ persistence
NoChat == [tutorial_id |-> "none", tutor_id |-> NoUser, start_time |-> 0,
           end_time |-> 0, chat_session_id |-> 0]

\* db.get_active_chat
get_active_chat(t) ==
    IF \E row \in active_chats : row.tutorial_id = t
    THEN CHOOSE row \in active_chats : row.tutorial_id = t
    ELSE NoChat

\* fault: start_chat without its active-chat check
start_chat_unchecked(t) == TRUE

\* db.start_chat, the check it starts with
start_chat_check(t) == get_active_chat(t) = NoChat

\* PRIMARY KEY of active_chats (db.py:76): an INSERT of a second row for the
\* tutorial raises IntegrityError
insert_allowed(t) == ~\E row \in active_chats : row.tutorial_id = t

\* db.end_chat
end_chat(t) == {row \in active_chats : row.tutorial_id # t}

\* fault: every user counts as enrolled everywhere
enrolled_everywhere(u) == Tutorials

\* db.get_user_tutorials
get_user_tutorials(u) == {t \in Tutorials : <<u, t>> \in assignments}

\* db.get_students_in_tutorial
get_students_in_tutorial(t) == {u \in Students : <<u, t>> \in assignments}

NoRow == [exists |-> FALSE, first_join_time |-> 0, last_seen_time |-> 0,
          total_duration_seconds |-> 0, is_present |-> FALSE]

\* db.initialize_attendance_for_session
initialize_attendance_for_session(att, cs, t) ==
    [k \in DOMAIN att |->
        IF k[1] = cs /\ k[2] \in get_students_in_tutorial(t)
        THEN [exists |-> TRUE, first_join_time |-> 0, last_seen_time |-> 0,
              total_duration_seconds |-> 0, is_present |-> FALSE]
        ELSE att[k]]

\* fault: a rejoin that starts the accumulated duration again from zero
mark_student_present_reset(att, cs, u) ==
    IF <<cs, u>> \notin DOMAIN att THEN att
    ELSE [att EXCEPT ![<<cs, u>>] =
             [exists |-> TRUE,
              first_join_time |-> IF att[<<cs, u>>].first_join_time = 0 THEN now
                                  ELSE att[<<cs, u>>].first_join_time,
              last_seen_time |-> now, total_duration_seconds |-> 0, is_present |-> TRUE]]

\* db.mark_student_present
mark_student_present(att, cs, u) ==
    IF <<cs, u>> \notin DOMAIN att THEN att
    ELSE LET row == att[<<cs, u>>] IN
         IF row.exists
         THEN IF ~row.is_present
              THEN [att EXCEPT ![<<cs, u>>] =
                       [row EXCEPT !.is_present = TRUE, !.last_seen_time = now,
                                   !.first_join_time = IF @ = 0 THEN now ELSE @]]
              ELSE att
         ELSE [att EXCEPT ![<<cs, u>>] =
                  [exists |-> TRUE, first_join_time |-> now, last_seen_time |-> now,
                   total_duration_seconds |-> 0, is_present |-> TRUE]]

\* fault: a leave that stores the last visit's length instead of adding it
disconnect_attendance_overwrite(att, cs, u) ==
    IF <<cs, u>> \notin DOMAIN att THEN att
    ELSE IF att[<<cs, u>>].exists /\ att[<<cs, u>>].is_present
    THEN [att EXCEPT ![<<cs, u>>] =
             [att[<<cs, u>>] EXCEPT !.is_present = FALSE,
                                    !.total_duration_seconds = now - att[<<cs, u>>].last_seen_time,
                                    !.last_seen_time = now]]
    ELSE att

\* db.disconnect_attendance
disconnect_attendance(att, cs, u) ==
    IF <<cs, u>> \notin DOMAIN att THEN att
    ELSE LET row == att[<<cs, u>>] IN
         IF row.exists /\ row.is_present
         THEN [att EXCEPT ![<<cs, u>>] =
                  [row EXCEPT !.is_present = FALSE,
                              !.total_duration_seconds = @ + (now - row.last_seen_time),
                              !.last_seen_time = now]]
         ELSE att

\* ------------------------------------------------------------ connections
\* pc: idle (handle not yet in use), creating (credential login between the
\* already-logged-in check and create_session), serving (in a handle_* loop),
\* starting (START_CHAT between start_chat's check and its INSERT),
\* assigning (ASSIGN between is_tutor_already_assigned and the INSERT),
\* joining (JOIN_CHAT between its get_active_chat and update_socket),
\* locked (inside a ChatRoomManager method, holding room_lock),
\* ending (END_CHAT between its CHAT_ENDED sends and close_room),
\* closed (loop left and socket closed), returned (loop left, nothing cleaned up).
IdleConn == [pc |-> "idle", user |-> NoUser, sid |-> NoToken, kind |-> "none",
             handler |-> "none", tut |-> "none", dur |-> 0, nonblock |-> FALSE,
             uid |-> NoUser, cs |-> 0]

NoOut == [to |-> NoSocket, reply |-> "none", pushes |-> {}, value |-> 0]
Reply(c, text) == [to |-> c, reply |-> text, pushes |-> {}, value |-> 0]

\* TutorialServer.verify_session with the token the loop was started with
verify_session(c) == get_session_by_id(conn[c].sid) # NoSession

Serving(c) == conn[c].pc = "serving" /\ sock[c] = "open"

\* accept_connection hands out a handle not in use: the lowest free one
Accepted(c) == conn[c].pc = "idle" /\ \A c2 \in Sockets : c2 < c => conn[c2].pc # "idle"

\* A step of a scenario that bounds its length counts against MaxSteps; a
\* negative count marks a scenario of any length.
Count == steps < MaxSteps /\ steps' = (IF steps < 0 THEN steps ELSE steps + 1)

\* ------------------------------------------------------------ authentication
LoginNames == {"t1", "s1", "nobody"}

\* handle_client -> _handle_credential_auth up to the already-logged-in check
\* (server2.py:262-299): a failed check replies FAIL and closes the socket.
CredCheck(c, u, pwok) ==
    /\ Accepted(c)
    /\ IF u \notin Users
       THEN /\ out' = Reply(c, "FAIL:User not found")
            /\ conn' = [conn EXCEPT ![c].pc = "closed"]
            /\ sock' = [sock EXCEPT ![c] = "closed"]
       ELSE IF ~pwok
       THEN /\ out' = Reply(c, "FAIL:Incorrect password")
            /\ conn' = [conn EXCEPT ![c].pc = "closed"]
            /\ sock' = [sock EXCEPT ![c] = "closed"]
       ELSE IF user_has_active_session(u)
       THEN /\ out' = Reply(c, "FAIL:Already logged in")
            /\ conn' = [conn EXCEPT ![c].pc = "closed"]
            /\ sock' = [sock EXCEPT ![c] = "closed"]
       ELSE /\ out' = NoOut
            /\ conn' = [conn EXCEPT ![c] = [IdleConn EXCEPT !.pc = "creating", !.user = u,
                                             !.kind = "cred"]]
            /\ sock' = [sock EXCEPT ![c] = "open"]
    /\ UNCHANGED <<now, regVars, dbVars, rooms, timers, endedBy, visits>>
    /\ Count

\* Login data that does not split into exactly a user id and a password
\* (server2.py:264-272)
CredMalformed(c) ==
    /\ Accepted(c)
    /\ out' = Reply(c, "FAIL:Malformed login data")
    /\ conn' = [conn EXCEPT ![c].pc = "closed"]
    /\ sock' = [sock EXCEPT ![c] = "closed"]
    /\ UNCHANGED <<now, regVars, dbVars, rooms, timers, endedBy, visits>>
    /\ Count

\* _handle_credential_auth from create_session to the role's handler
\* (server2.py:301-321)
CredCreate(c) ==
    /\ conn[c].pc = "creating"
    /\ nextToken <= MaxTokens
    /\ create_session(conn[c].user, nextToken, c)
    /\ nextToken' = nextToken + 1
    /\ conn' = [conn EXCEPT ![c].pc = "serving", ![c].sid = nextToken,
                            ![c].handler = get_user_role(conn[c].user)]
    /\ out' = Reply(c, "SUCCESS")
    /\ UNCHANGED <<now, sock, dbVars, rooms, timers, endedBy, visits>>
    /\ Count

\* SessionManager.end_session called with any token, and its return value
\* (session_manager.py:38-49)
EndSession(tok) ==
    /\ end_session(tok)
    /\ out' = [NoOut EXCEPT !.reply = IF session_lookup[tok] # NoUser THEN "True" ELSE "False"]
    /\ UNCHANGED <<now, conn, sock, nextToken, dbVars, rooms, timers, endedBy, visits>>
    /\ Count

\* handle_client -> _handle_session_auth (server2.py:239-260)
SessionAuth(c, tok) ==
    /\ Accepted(c)
    /\ IF get_session_by_id(tok) # NoSession
       THEN /\ out' = Reply(c, "SUCCESS:Session authenticated")
            /\ conn' = [conn EXCEPT ![c] = [IdleConn EXCEPT
                            !.pc = "serving", !.user = session_user(tok), !.sid = tok,
                            !.kind = "sessauth",
                            !.handler = IF get_user_role(session_user(tok)) = "tutor"
                                        THEN "tutor" ELSE "student"]]
            /\ sock' = [sock EXCEPT ![c] = "open"]
       ELSE /\ out' = Reply(c, "FAIL:Invalid session")
            /\ conn' = [conn EXCEPT ![c].pc = "closed"]
            /\ sock' = [sock EXCEPT ![c] = "closed"]
    /\ UNCHANGED <<now, regVars, dbVars, rooms, timers, endedBy, visits>>
    /\ Count

\* The client side of a connection goes away: later sends to the socket fail
\* and the worker's next receive_data returns a status other than OK.
PeerDrop(c) ==
    /\ sock[c] = "open"
    /\ sock' = [sock EXCEPT ![c] = "dead"]
    /\ out' = NoOut
    /\ UNCHANGED <<now, conn, regVars, dbVars, rooms, timers, endedBy, visits>>
    /\ Count

\* A handle_* loop ends on a receive status other than OK (server2.py:441-444,
\* 724-727); a socket put in non-blocking mode by CHAT_AUTH reports an error
\* whenever no command is waiting. A credential connection then runs the
\* finally block of _handle_credential_auth (server2.py:322-326);
\* _handle_session_auth simply returns.
leave_loop(c) ==
    /\ IF conn[c].kind = "cred"
       THEN /\ end_session(conn[c].sid)
            /\ conn' = [conn EXCEPT ![c].pc = "closed"]
            /\ sock' = [sock EXCEPT ![c] = "closed"]
       ELSE /\ conn' = [conn EXCEPT ![c].pc = "returned"]
            /\ UNCHANGED <<sock, active_sessions, session_lookup, socket_to_session>>
    /\ out' = NoOut
    /\ UNCHANGED <<now, nextToken, dbVars, rooms, timers, endedBy, visits>>
    /\ Count

LoopExit(c) ==
    /\ conn[c].pc = "serving"
    /\ sock[c] = "dead" \/ (sock[c] = "open" /\ conn[c].nonblock)
    /\ leave_loop(c)

\* receive_data returns SOCK_STATUS_TIMEOUT on a connection whose peer is
\* still there (CustomSocket.py:371-374): the loops break on every status
\* other than SOCK_STATUS_OK (server2.py:441-444, 724-727).
ReceiveTimeout(c) ==
    /\ Serving(c)
    /\ leave_loop(c)

\* ------------------------------------------------------------ tutor commands
\* The timer thread of a chat session: pc, tutorial_id, duration and wake are
\* the thread's; started_at, warned, warned_at, ended and ended_at are history
\* of the chat session of that id: the WARNINGs sent while it was the active
\* chat and its deletion by a timer.
NoTimer == [pc |-> "none", tutorial_id |-> "none", duration |-> 0, wake |-> 0,
            warned |-> 0, ended |-> FALSE, started_at |-> 0, warned_at |-> 0, ended_at |-> 0]

TutorCmd(c) == Serving(c) /\ conn[c].handler = "tutor" /\ verify_session(c)
StudentCmd(c) == Serving(c) /\ conn[c].handler = "student" /\ verify_session(c)
ChatCmd(c) == Serving(c) /\ conn[c].handler \in {"tutor", "student"} /\ verify_session(c)

\* _chat_session_timer up to its first sleep (server2.py:986-1012):
\* time.sleep of a negative number raises ValueError and ends the thread.
start_timer(t, d) ==
    IF d - WarnBefore > 0
    THEN [NoTimer EXCEPT !.pc = "sleep_warn", !.tutorial_id = t, !.duration = d,
                         !.wake = now + (d - WarnBefore), !.started_at = now]
    ELSE IF d < 0
    THEN [NoTimer EXCEPT !.pc = "crashed", !.tutorial_id = t, !.duration = d, !.started_at = now]
    ELSE [NoTimer EXCEPT !.pc = "sleep_full", !.tutorial_id = t, !.duration = d,
                         !.wake = now + d, !.started_at = now]

\* _handle_start_chat -> db.start_chat, the active-chat check (server2.py:512-526,
\* db.py:383-387)
StartChatCheck(c, t, d) ==
    /\ TutorCmd(c)
    /\ IF start_chat_check(t)
       THEN /\ nextChat <= MaxChats
            /\ conn' = [conn EXCEPT ![c].pc = "starting", ![c].tut = t, ![c].dur = d]
            /\ out' = NoOut
       ELSE /\ out' = Reply(c, "FAIL:Chat session already active")
            /\ UNCHANGED conn
    /\ UNCHANGED <<now, sock, regVars, dbVars, rooms, timers, endedBy, visits>>
    /\ Count

\* fault: an exception of a command handler leaves the loop
except_propagates(c, pushes) ==
    [pc |-> "returned", out |-> [NoOut EXCEPT !.pushes = pushes]]

\* The except clause around the dispatch of a handle_* loop (server2.py:374-377,
\* 491-493, 766-768): the exception is logged and answered, and the loop reads
\* on; `pushes` is what the handler had sent to other sockets before it raised.
except_clause(c, pushes) ==
    [pc |-> "serving", out |-> [to |-> c, reply |-> "FAIL:Internal error", pushes |-> pushes, value |-> 0]]

\* db.start_chat from the INSERT on, then the rest of _handle_start_chat
\* (db.py:389-405, server2.py:527-544). A duplicate key raises inside the
\* handler, which handle_tutor answers with FAIL:Internal error.
StartChatInsert(c) ==
    LET t == conn[c].tut
        d == conn[c].dur
        cs == nextChat
    IN
    /\ conn[c].pc = "starting"
    /\ IF insert_allowed(t)
       THEN /\ nextChat <= MaxChats
            /\ conn' = [conn EXCEPT ![c].pc = "serving", ![c].tut = "none", ![c].dur = 0]
            /\ active_chats' = active_chats \cup
                   {[tutorial_id |-> t, tutor_id |-> conn[c].user, start_time |-> now,
                     end_time |-> now + d, chat_session_id |-> cs]}
            /\ nextChat' = nextChat + 1
            /\ rooms' = [rooms EXCEPT ![t] = add_socket(@, conn[c].user, c, FALSE)]
            /\ sock' = add_socket_closes(rooms[t], conn[c].user, FALSE)
            /\ attendance' = initialize_attendance_for_session(attendance, cs, t)
            /\ timers' = [timers EXCEPT ![cs] = start_timer(t, d)]
            /\ out' = Reply(c, "CHAT_STARTED")
       ELSE /\ conn' = [conn EXCEPT ![c].pc = except_clause(c, {}).pc,
                                      ![c].tut = "none", ![c].dur = 0]
            /\ out' = except_clause(c, {}).out
            /\ UNCHANGED <<active_chats, nextChat, rooms, attendance, timers, sock>>
    /\ UNCHANGED <<now, regVars, assignments, endedBy, visits>>
    /\ Count

\* _handle_end_chat (server2.py:702-719): no ownership check and no reply
handle_end_chat(t) ==
    /\ active_chats' = end_chat(t)
    /\ endedBy' = IF get_active_chat(t) # NoChat
                  THEN [endedBy EXCEPT ![get_active_chat(t).chat_session_id] = "manual"]
                  ELSE endedBy
    /\ out' = [NoOut EXCEPT !.pushes = Push(get_chat_sockets(rooms[t], NoUser), "CHAT_ENDED")]
    /\ rooms' = [rooms EXCEPT ![t] = close_room(@)]
    /\ UNCHANGED <<now, conn, sock, regVars, assignments, attendance, nextChat, timers, visits>>
    /\ Count

\* END_CHAT read by handle_tutor with the connection's own token
\* (server2.py:450-460, 479-480)
EndChat(c, t) == TutorCmd(c) /\ handle_end_chat(t)

\* _handle_end_chat up to the end of its CHAT_ENDED loop (server2.py:702-716),
\* for scenarios where other threads run before the room is closed
EndChatNotify(c, t) ==
    /\ TutorCmd(c)
    /\ active_chats' = end_chat(t)
    /\ endedBy' = IF get_active_chat(t) # NoChat
                  THEN [endedBy EXCEPT ![get_active_chat(t).chat_session_id] = "manual"]
                  ELSE endedBy
    /\ out' = [NoOut EXCEPT !.pushes = Push(get_chat_sockets(rooms[t], NoUser), "CHAT_ENDED")]
    /\ conn' = [conn EXCEPT ![c].pc = "ending", ![c].tut = t]
    /\ UNCHANGED <<now, sock, regVars, assignments, attendance, nextChat, rooms, timers, visits>>
    /\ Count

\* _handle_end_chat, its close_room (server2.py:718-719)
EndChatClose(c) ==
    /\ conn[c].pc = "ending"
    /\ rooms' = [rooms EXCEPT ![conn[c].tut] = close_room(@)]
    /\ conn' = [conn EXCEPT ![c].pc = "serving", ![c].tut = "none"]
    /\ out' = NoOut
    /\ UNCHANGED <<now, sock, regVars, dbVars, timers, endedBy, visits>>
    /\ Count

\* _handle_tutor_join_chat (server2.py:546-582)
TutorJoin(c, t) ==
    LET chat == get_active_chat(t)
        r1 == add_socket(rooms[t], conn[c].user, c, FALSE)
    IN
    /\ TutorCmd(c)
    /\ IF chat = NoChat
       THEN /\ out' = Reply(c, "FAIL:No active chat for this tutorial")
            /\ UNCHANGED <<rooms, sock>>
       ELSE IF chat.tutor_id # conn[c].user
       THEN /\ out' = Reply(c, "FAIL:Not authorized for this chat")
            /\ UNCHANGED <<rooms, sock>>
       ELSE /\ rooms' = [rooms EXCEPT ![t] = r1]
            /\ sock' = add_socket_closes(rooms[t], conn[c].user, FALSE)
            /\ out' = [to |-> c, reply |-> "CHAT_JOINED",
                       pushes |-> Push(get_chat_sockets(r1, conn[c].user), "USER_JOINED"),
                       value |-> 0]
    /\ UNCHANGED <<now, conn, regVars, dbVars, timers, endedBy, visits>>
    /\ Count

\* ChatRoomManager.room_lock (server2.py:41) is free when no worker is inside
\* a `with self.room_lock` block
room_lock_free == \A c \in Sockets : conn[c].pc # "locked"

\* START_CHAT's INSERT and add_socket where the lock is modelled: add_socket
\* waits for room_lock (server2.py:45)
StartChatInsertLocked(c) == room_lock_free /\ StartChatInsert(c)

\* _handle_tutor_join_chat up to the point inside add_socket where the lock
\* is held and the room entry is there (server2.py:546-564, 45-47)
TutorJoinEnter(c, t) ==
    LET chat == get_active_chat(t) IN
    /\ TutorCmd(c)
    /\ IF chat = NoChat
       THEN /\ out' = Reply(c, "FAIL:No active chat for this tutorial")
            /\ UNCHANGED <<conn, rooms>>
       ELSE IF chat.tutor_id # conn[c].user
       THEN /\ out' = Reply(c, "FAIL:Not authorized for this chat")
            /\ UNCHANGED <<conn, rooms>>
       ELSE /\ room_lock_free
            /\ conn' = [conn EXCEPT ![c].pc = "locked", ![c].tut = t]
            /\ rooms' = [rooms EXCEPT ![t] = touch_room(@)]
            /\ out' = NoOut
    /\ UNCHANGED <<now, sock, regVars, dbVars, timers, endedBy, visits>>
    /\ Count

\* the rest of add_socket, which releases the lock, and of
\* _handle_tutor_join_chat (server2.py:49-64, 566-582)
TutorJoinExit(c) ==
    LET t == conn[c].tut
        r1 == add_socket(rooms[t], conn[c].user, c, FALSE)
    IN
    /\ conn[c].pc = "locked"
    /\ conn' = [conn EXCEPT ![c].pc = "serving", ![c].tut = "none"]
    /\ rooms' = [rooms EXCEPT ![t] = r1]
    /\ sock' = add_socket_closes(rooms[t], conn[c].user, FALSE)
    /\ out' = [to |-> c, reply |-> "CHAT_JOINED",
               pushes |-> Push(get_chat_sockets(r1, conn[c].user), "USER_JOINED"),
               value |-> 0]
    /\ UNCHANGED <<now, regVars, dbVars, timers, endedBy, visits>>
    /\ Count

\* _broadcast_attendance_update (server2.py:1032-1067) on room value r: the
\* payload goes to the chat socket of the user the loop variable was left on,
\* the last one of the room; with no user in the room the variable is unbound
\* and the function raises.
attendance_update(t, r) ==
    IF get_active_chat(t) = NoChat
    THEN [raised |-> FALSE, room |-> r, pushes |-> {}]
    ELSE LET r1 == touch_room(r) IN
         IF Len(r1.users) = 0
         THEN [raised |-> TRUE, room |-> r1, pushes |-> {}]
         ELSE [raised |-> FALSE, room |-> r1,
               pushes |-> Push({r1.users[Len(r1.users)].chat} \ {NoSocket}, "ATTENDANCE_UPDATE")]

\* _handle_get_attendance (server2.py:795-833)
GetAttendance(c, t) ==
    LET session == get_session_by_socket(c)
        r1 == touch_room(rooms[t])
        u == session_user(conn[c].sid)
        chat_socket == IF u \in RoomUsers(r1) THEN Slots(r1, u).chat ELSE NoSocket
    IN
    /\ TutorCmd(c)
    /\ IF session = NoSession \/ session.session_id # conn[c].sid
       THEN /\ out' = Reply(c, "FAIL:Invalid session")
            /\ UNCHANGED rooms
       ELSE /\ rooms' = [rooms EXCEPT ![t] = r1]
            /\ IF chat_socket # NoSocket
               THEN out' = [NoOut EXCEPT !.pushes = Push({chat_socket}, "ATTENDANCE_UPDATE")]
               ELSE out' = Reply(c, "FAIL:No chat socket available")
    /\ UNCHANGED <<now, conn, sock, regVars, dbVars, timers, endedBy, visits>>
    /\ Count

\* ------------------------------------------------------------ student and chat commands
\* History of the JOIN_CHAT and LEAVE_CHAT commands served for a student while
\* a chat session was active, with their times; a log that would outgrow
\* VisitLog entries is replaced by TooLong.
TooLong == <<[ev |-> "more", at |-> 0]>>
Record(v, cs, u, event) ==
    IF <<cs, u>> \notin DOMAIN v THEN v
    ELSE IF v[<<cs, u>>] = TooLong \/ Len(v[<<cs, u>>]) >= VisitLog
    THEN [v EXCEPT ![<<cs, u>>] = TooLong]
    ELSE [v EXCEPT ![<<cs, u>>] = Append(@, [ev |-> event, at |-> now])]

\* _handle_join_chat (server2.py:835-886)
JoinChat(c, t) ==
    LET u == conn[c].user
        chat == get_active_chat(t)
        r1 == add_socket(rooms[t], u, c, FALSE)
        att == attendance_update(t, r1)
    IN
    /\ StudentCmd(c)
    /\ IF t \notin get_user_tutorials(u)
       THEN /\ out' = Reply(c, "FAIL:Not authorized for this tutorial")
            /\ UNCHANGED <<rooms, sock, attendance, visits, active_sessions, session_lookup, socket_to_session>>
       ELSE IF chat = NoChat
       THEN /\ out' = Reply(c, "FAIL:No active chat for this tutorial")
            /\ UNCHANGED <<rooms, sock, attendance, visits, active_sessions, session_lookup, socket_to_session>>
       ELSE IF ~update_socket_ok(conn[c].sid)
       THEN /\ out' = Reply(c, "FAIL:Session update failed")
            /\ UNCHANGED <<rooms, sock, attendance, visits, active_sessions, session_lookup, socket_to_session>>
       ELSE /\ update_socket(conn[c].sid, c)
            /\ attendance' = mark_student_present(attendance, chat.chat_session_id, u)
            /\ visits' = Record(visits, chat.chat_session_id, u, "join")
            /\ rooms' = [rooms EXCEPT ![t] = att.room]
            /\ sock' = add_socket_closes(rooms[t], u, FALSE)
            /\ out' = [to |-> c, reply |-> "CHAT_JOINED",
                       pushes |-> att.pushes \cup Push(get_chat_sockets(att.room, u), "USER_JOINED"),
                       value |-> 0]
    /\ UNCHANGED <<now, conn, nextToken, assignments, active_chats, nextChat, timers, endedBy>>
    /\ Count

\* _handle_join_chat up to the active-chat check (server2.py:835-853), for
\* scenarios where other threads run before the handler goes on: the worker
\* keeps the chat row it has read.
JoinChatCheck(c, t) ==
    LET u == conn[c].user
        chat == get_active_chat(t)
    IN
    /\ StudentCmd(c)
    /\ IF t \notin get_user_tutorials(u)
       THEN /\ out' = Reply(c, "FAIL:Not authorized for this tutorial")
            /\ UNCHANGED conn
       ELSE IF chat = NoChat
       THEN /\ out' = Reply(c, "FAIL:No active chat for this tutorial")
            /\ UNCHANGED conn
       ELSE /\ out' = NoOut
            /\ conn' = [conn EXCEPT ![c].pc = "joining", ![c].tut = t,
                                    ![c].cs = chat.chat_session_id]
    /\ UNCHANGED <<now, sock, regVars, dbVars, rooms, timers, endedBy, visits>>
    /\ Count

\* _handle_join_chat from update_socket on (server2.py:855-886)
JoinChatAttach(c) ==
    LET u == conn[c].user
        t == conn[c].tut
        r1 == add_socket(rooms[t], u, c, FALSE)
        att == attendance_update(t, r1)
    IN
    /\ conn[c].pc = "joining"
    /\ conn' = [conn EXCEPT ![c].pc = "serving", ![c].tut = "none", ![c].cs = 0]
    /\ IF ~update_socket_ok(conn[c].sid)
       THEN /\ out' = Reply(c, "FAIL:Session update failed")
            /\ UNCHANGED <<rooms, sock, attendance, visits, active_sessions, session_lookup, socket_to_session>>
       ELSE /\ update_socket(conn[c].sid, c)
            /\ attendance' = mark_student_present(attendance, conn[c].cs, u)
            /\ visits' = Record(visits, conn[c].cs, u, "join")
            /\ rooms' = [rooms EXCEPT ![t] = att.room]
            /\ sock' = add_socket_closes(rooms[t], u, FALSE)
            /\ out' = [to |-> c, reply |-> "CHAT_JOINED",
                       pushes |-> att.pushes \cup Push(get_chat_sockets(att.room, u), "USER_JOINED"),
                       value |-> 0]
    /\ UNCHANGED <<now, nextToken, assignments, active_chats, nextChat, timers, endedBy>>
    /\ Count

\* _handle_chat_auth, remaining_seconds = max(0, int(end_time - current_time))
\* (server2.py:616-618), in the time unit of `now`
remaining_seconds(chat) == IF chat.end_time - now > 0 THEN chat.end_time - now ELSE 0

\* _handle_chat_auth (server2.py:585-650); `value` of the reply is the
\* remaining time sent with CHAT_CONNECTED
ChatAuth(c, t) ==
    LET u == session_user(conn[c].sid)
        chat == get_active_chat(t)
        r1 == IF chat # NoChat THEN add_socket(rooms[t], u, c, TRUE) ELSE rooms[t]
        participants == IF r1.exists THEN RoomUsers(r1) \ {u} ELSE {}
        snapshot == IF participants # {} THEN Push({c}, "PARTICIPANTS") ELSE {}
    IN
    /\ ChatCmd(c)
    /\ rooms' = [rooms EXCEPT ![t] = r1]
    /\ IF chat # NoChat
       THEN /\ out' = [to |-> c, reply |-> "CHAT_CONNECTED", pushes |-> snapshot,
                       value |-> remaining_seconds(chat)]
            /\ conn' = [conn EXCEPT ![c].nonblock = TRUE]
            /\ sock' = add_socket_closes(rooms[t], u, TRUE)
       ELSE /\ out' = [to |-> c, reply |-> "FAIL:Chat room not found", pushes |-> snapshot,
                       value |-> 0]
            /\ UNCHANGED <<conn, sock>>
    /\ UNCHANGED <<now, regVars, dbVars, timers, endedBy, visits>>
    /\ Count

\* fault: a broadcast that always repeats the payload on the primary slots
broadcast_to_both(r, sender) ==
    LET chat_sockets == get_chat_sockets(r, sender)
        r1 == remove_dead_sockets(r, chat_sockets \ Deliver(chat_sockets))
        primary_sockets == get_primary_sockets(r1, sender)
    IN [room |-> r1, chat_sent |-> Deliver(chat_sockets),
        primary_tried |-> primary_sockets, primary_sent |-> Deliver(primary_sockets),
        result |-> Deliver(chat_sockets) \cup Deliver(primary_sockets) # {}]

\* _broadcast_chat_message (server2.py:888-943) on room value r: the room
\* after the dead chat sockets are detached, the sockets each attempt reached,
\* and the return value successful_sends > 0.
broadcast_chat_message(r, sender) ==
    LET chat_sockets == get_chat_sockets(r, sender)
        chat_ok == Deliver(chat_sockets)
        r1 == remove_dead_sockets(r, chat_sockets \ chat_ok)
        primary_sockets == IF chat_ok = {} THEN get_primary_sockets(r1, sender) ELSE {}
        primary_ok == Deliver(primary_sockets)
        successful_sends == Cardinality(chat_ok) + Cardinality(primary_ok)
    IN [room |-> r1, chat_sent |-> chat_ok,
        primary_tried |-> primary_sockets, primary_sent |-> primary_ok,
        result |-> successful_sends > 0]

\* _handle_chat_message -> _broadcast_chat_message (server2.py:692-700, 888-943)
ChatMessage(c, t) ==
    LET sender == session_user(conn[c].sid)
        b == broadcast_chat_message(rooms[t], sender)
    IN
    /\ ChatCmd(c)
    /\ rooms' = [rooms EXCEPT ![t] = b.room]
    /\ out' = [NoOut EXCEPT !.pushes =
                  {<<x, "MESSAGE">> : x \in b.chat_sent \cup b.primary_sent}]
    /\ UNCHANGED <<now, conn, sock, regVars, dbVars, timers, endedBy, visits>>
    /\ Count

\* _handle_disconnect_message (server2.py:945-984), the LEAVE_CHAT command
LeaveChat(c, t) ==
    LET sender == session_user(conn[c].sid)
        chat == get_active_chat(t)
        left == Push(get_chat_sockets(rooms[t], sender), "USER_LEFT")
        att == attendance_update(t, rooms[t])
    IN
    /\ ChatCmd(c)
    /\ attendance' = IF chat # NoChat
                     THEN disconnect_attendance(attendance, chat.chat_session_id, sender)
                     ELSE attendance
    /\ IF att.raised
       THEN /\ rooms' = [rooms EXCEPT ![t] = att.room]
            /\ conn' = [conn EXCEPT ![c].pc = except_clause(c, left).pc]
            /\ out' = except_clause(c, left).out
       ELSE /\ rooms' = [rooms EXCEPT ![t] = remove_user(att.room, sender)]
            /\ out' = [NoOut EXCEPT !.pushes = left \cup att.pushes]
            /\ UNCHANGED conn
    /\ visits' = IF chat # NoChat
                 THEN Record(visits, chat.chat_session_id, sender, "leave")
                 ELSE visits
    /\ UNCHANGED <<now, sock, regVars, assignments, active_chats, nextChat, timers, endedBy>>
    /\ Count

\* verify_session fails (server2.py:328-335, 459-460, 742-743): the session the
\* loop was started for is no longer in the registry
InvalidSession(c) ==
    /\ Serving(c)
    /\ ~verify_session(c)
    /\ out' = Reply(c, "FAIL:Invalid session")
    /\ UNCHANGED <<now, conn, sock, regVars, dbVars, rooms, timers, endedBy, visits>>
    /\ Count

\* ------------------------------------------------------------ admin commands
AdminCmd(c) == Serving(c) /\ conn[c].handler = "admin" /\ verify_session(c)

\* db.is_tutor_already_assigned (db.py:259-289)
is_tutor_already_assigned(tid) == \E u \in Tutors : <<u, tid>> \in assignments

\* The user ids an admin names in ASSIGN
AssignNames == {"t1", "t2", "s1", "nobody"}

\* _handle_assign up to the INSERT (server2.py:415-431)
AssignCheck(c, uid, tid) ==
    /\ AdminCmd(c)
    /\ IF get_user_role(uid) = "none"
       THEN /\ out' = Reply(c, "FAIL:User not found")
            /\ UNCHANGED conn
       ELSE IF get_user_role(uid) = "tutor" /\ is_tutor_already_assigned(tid)
       THEN /\ out' = Reply(c, "FAIL:Tutor already assigned to this tutorial")
            /\ UNCHANGED conn
       ELSE /\ out' = NoOut
            /\ conn' = [conn EXCEPT ![c].pc = "assigning", ![c].uid = uid, ![c].tut = tid]
    /\ UNCHANGED <<now, sock, regVars, dbVars, rooms, timers, endedBy, visits>>
    /\ Count

\* db.assign_user_to_tutorial and the reply (server2.py:433-436, db.py:231-257):
\* the primary key (user_id, tutorial_id) refuses a row that is already there
AssignInsert(c) ==
    LET row == <<conn[c].uid, conn[c].tut>> IN
    /\ conn[c].pc = "assigning"
    /\ conn' = [conn EXCEPT ![c].pc = "serving", ![c].uid = NoUser, ![c].tut = "none"]
    /\ IF row \in assignments
       THEN /\ out' = Reply(c, "FAIL:Database error")
            /\ UNCHANGED assignments
       ELSE /\ out' = Reply(c, "ASSIGNED")
            /\ assignments' = assignments \cup {row}
    /\ UNCHANGED <<now, sock, regVars, active_chats, attendance, nextChat, rooms, timers, endedBy, visits>>
    /\ Count

\* ------------------------------------------------------------ protocol errors
\* fault: any live session's token is accepted
verify_any_session(c, cmd_session_id) == get_session_by_id(cmd_session_id) # NoSession

\* TutorialServer.verify_session (server2.py:328-335): the command's leading
\* token must name a live session and be the token the loop was started with
verify_session_cmd(c, cmd_session_id) ==
    /\ get_session_by_id(cmd_session_id) # NoSession
    /\ cmd_session_id = conn[c].sid

\* "tok|END_CHAT|t" with a leading token other than the connection's own, read
\* by handle_tutor or handle_student (server2.py:450-460, 479-480, 733-743,
\* 764-765): END_CHAT is not a command of handle_student
ForeignToken(c, tok, t) ==
    /\ Serving(c)
    /\ conn[c].handler \in {"tutor", "student"}
    /\ tok # conn[c].sid
    /\ IF ~verify_session_cmd(c, tok)
       THEN /\ out' = Reply(c, "FAIL:Invalid session")
            /\ UNCHANGED <<now, conn, sock, regVars, dbVars, rooms, timers, endedBy, visits>>
            /\ Count
       ELSE IF conn[c].handler = "tutor"
       THEN handle_end_chat(t)
       ELSE /\ out' = Reply(c, "FAIL:Unknown command")
            /\ UNCHANGED <<now, conn, sock, regVars, dbVars, rooms, timers, endedBy, visits>>
            /\ Count

\* A message without a "|" (server2.py:450-453, 733-736): the loop logs an
\* error and reads on; nothing is sent.
Malformed(c) ==
    /\ Serving(c)
    /\ conn[c].handler \in {"tutor", "student"}
    /\ out' = NoOut
    /\ UNCHANGED <<now, conn, sock, regVars, dbVars, rooms, timers, endedBy, visits>>
    /\ Count

\* The commands of handle_tutor and handle_student that take arguments
\* (server2.py:465-485, 748-762)
ArgCommands(handler) ==
    IF handler = "tutor"
    THEN {"TUTORIAL_STUDENTS", "START_CHAT", "CHECK_CHAT", "CHAT_AUTH", "CHAT_MESSAGE",
          "LEAVE_CHAT", "END_CHAT", "JOIN_CHAT", "GET_ATTENDANCE"}
    ELSE IF handler = "student"
    THEN {"TUTORIAL_STUDENTS", "CHECK_CHAT", "JOIN_CHAT", "CHAT_AUTH", "CHAT_MESSAGE", "LEAVE_CHAT"}
    ELSE {}

\* The answer of a handler to a command with too few fields: every handler
\* sends FAIL:Invalid command format (server2.py:503-505, 514-516, 548-550,
\* 587-589, 654-656, 694-696, 704-706, 778-780, 797-799, 837-839) except
\* _handle_disconnect_message, which logs and returns (server2.py:947-949).
short_command_reply(cmd) ==
    IF cmd = "LEAVE_CHAT" THEN "none" ELSE "FAIL:Invalid command format"

\* "token|cmd" with the connection's valid token and the arguments missing
WrongArity(c, cmd) ==
    /\ ChatCmd(c)
    /\ cmd \in ArgCommands(conn[c].handler)
    /\ out' = IF short_command_reply(cmd) = "none" THEN NoOut
              ELSE Reply(c, short_command_reply(cmd))
    /\ UNCHANGED <<now, conn, sock, regVars, dbVars, rooms, timers, endedBy, visits>>
    /\ Count

\* A command name neither loop knows (server2.py:488-490, 763-765)
UnknownCommand(c) ==
    /\ ChatCmd(c)
    /\ out' = Reply(c, "FAIL:Unknown command")
    /\ UNCHANGED <<now, conn, sock, regVars, dbVars, rooms, timers, endedBy, visits>>
    /\ Count

\* ------------------------------------------------------------ session timer
Sleeping(k) == timers[k].pc \in {"sleep_warn", "sleep_end", "sleep_full"}

\* _chat_session_timer waking from its first sleep (server2.py:997-1009)
TimerWarn(k) ==
    LET t == timers[k].tutorial_id
        cs == get_active_chat(t).chat_session_id
    IN
    /\ timers[k].pc = "sleep_warn"
    /\ now >= timers[k].wake
    /\ IF get_active_chat(t) # NoChat
       THEN /\ out' = [NoOut EXCEPT !.pushes = Push(get_chat_sockets(rooms[t], NoUser), "WARNING")]
            /\ timers' = [timers EXCEPT ![k].pc = "sleep_end", ![k].wake = now + WarnBefore,
                                        ![cs].warned = @ + 1, ![cs].warned_at = now]
       ELSE /\ out' = NoOut
            /\ timers' = [timers EXCEPT ![k].pc = "done"]
    /\ UNCHANGED <<now, conn, sock, regVars, dbVars, rooms, endedBy, visits>>
    /\ Count

\* _chat_session_timer waking from its last sleep (server2.py:1014-1030)
TimerEnd(k) ==
    LET t == timers[k].tutorial_id
        cs == get_active_chat(t).chat_session_id
    IN
    /\ timers[k].pc \in {"sleep_end", "sleep_full"}
    /\ now >= timers[k].wake
    /\ IF get_active_chat(t) # NoChat
       THEN /\ active_chats' = end_chat(t)
            /\ endedBy' = [endedBy EXCEPT ![cs] = "timer"]
            /\ out' = [NoOut EXCEPT !.pushes = Push(get_chat_sockets(rooms[t], NoUser), "CHAT_ENDED")]
            /\ rooms' = [rooms EXCEPT ![t] = close_room(@)]
            /\ timers' = [timers EXCEPT ![k].pc = "done", ![cs].ended = TRUE, ![cs].ended_at = now]
       ELSE /\ out' = NoOut
            /\ timers' = [timers EXCEPT ![k].pc = "done"]
            /\ UNCHANGED <<active_chats, endedBy, rooms>>
    /\ UNCHANGED <<now, conn, sock, regVars, assignments, attendance, nextChat, visits>>
    /\ Count

\* _chat_session_timer waking from its last sleep, the check that the chat is
\* still active (server2.py:1014-1015, 1029-1030); pc checked is the thread
\* between that check and its end_chat
TimerEndCheck(k) ==
    /\ timers[k].pc \in {"sleep_end", "sleep_full"}
    /\ now >= timers[k].wake
    /\ timers' = [timers EXCEPT ![k].pc = IF get_active_chat(timers[k].tutorial_id) # NoChat
                                          THEN "checked" ELSE "done"]
    /\ out' = NoOut
    /\ UNCHANGED <<now, conn, sock, regVars, dbVars, rooms, endedBy, visits>>
    /\ Count

\* _chat_session_timer from its end_chat on (server2.py:1016-1027): the DELETE
\* of a row that is gone deletes nothing
TimerEndFinish(k) ==
    LET t == timers[k].tutorial_id
        chat == get_active_chat(t)
        cs == chat.chat_session_id
    IN
    /\ timers[k].pc = "checked"
    /\ active_chats' = end_chat(t)
    /\ endedBy' = IF chat # NoChat THEN [endedBy EXCEPT ![cs] = "timer"] ELSE endedBy
    /\ out' = [NoOut EXCEPT !.pushes = Push(get_chat_sockets(rooms[t], NoUser), "CHAT_ENDED")]
    /\ rooms' = [rooms EXCEPT ![t] = close_room(@)]
    /\ timers' = IF chat # NoChat
                 THEN [timers EXCEPT ![k].pc = "done", ![cs].ended = TRUE, ![cs].ended_at = now]
                 ELSE [timers EXCEPT ![k].pc = "done"]
    /\ UNCHANGED <<now, conn, sock, regVars, assignments, attendance, nextChat, visits>>
    /\ Count

\* A minute passes; a sleeping thread whose time has come runs first.
Tick(horizon) ==
    /\ now < horizon
    /\ \A k \in ChatIds : Sleeping(k) => timers[k].wake > now
    /\ now' = now + 1
    /\ out' = NoOut
    /\ UNCHANGED <<conn, sock, regVars, dbVars, rooms, timers, endedBy, visits>>
    /\ Count

\* ------------------------------------------------------------ specifications
Enrolment == {<<"t1", "T1">>, <<"t2", "T1">>, <<"s1", "T1">>, <<"s2", "T1">>}

\* The server with the users of `logged` logged in with credentials, each on
\* the socket of its place in the sequence and holding the token of that
\* number (the state CredCheck and CredCreate reach for them in turn). With
\* the empty sequence this is the server after construction. `budget` is the
\* number of steps the scenario may take, negative for any number.
InitState(logged, budget, assigned) ==
    /\ now = 1
    /\ conn = [c \in Sockets |->
                 IF c <= Len(logged)
                 THEN [IdleConn EXCEPT !.pc = "serving", !.user = logged[c], !.sid = c,
                                       !.kind = "cred", !.handler = get_user_role(logged[c])]
                 ELSE IdleConn]
    /\ sock = [c \in Sockets |-> IF c <= Len(logged) THEN "open" ELSE "none"]
    /\ active_sessions = [u \in Users |->
                 IF \E c \in 1..Len(logged) : logged[c] = u
                 THEN LET c == CHOOSE c \in 1..Len(logged) : logged[c] = u
                      IN [session_id |-> c, socket |-> c]
                 ELSE NoSession]
    /\ session_lookup = [k \in Tokens |-> IF k <= Len(logged) THEN logged[k] ELSE NoUser]
    /\ socket_to_session = [c \in Sockets |-> IF c <= Len(logged) THEN c ELSE NoToken]
    /\ nextToken = Len(logged) + 1
    /\ assignments = assigned
    /\ active_chats = {}
    /\ attendance = [k \in ChatIds \X Students |-> NoRow]
    /\ nextChat = 1
    /\ rooms = [t \in Tutorials |-> NoRoom]
    /\ timers = [k \in ChatIds |-> NoTimer]
    /\ endedBy = [k \in ChatIds |-> "none"]
    /\ visits = [k \in ChatIds \X Students |-> <<>>]
    /\ out = NoOut
    /\ steps = (IF budget < 0 THEN -1 ELSE MaxSteps - budget)

InitWith(logged, budget) == InitState(logged, budget, Enrolment)

\* ---- logging in and out
InitLogin == InitWith(<<>>, -1)

NextLogin ==
    \/ \E c \in 1..MaxLogins, u \in LoginNames, pwok \in BOOLEAN : CredCheck(c, u, pwok)
    \/ \E c \in 1..MaxLogins : CredMalformed(c)
    \/ \E c \in Sockets : CredCreate(c)
    \/ \E c \in 1..MaxLogins, tok \in Tokens : SessionAuth(c, tok)
    \/ \E c \in Sockets : PeerDrop(c)
    \/ \E c \in Sockets : LoopExit(c)

SpecLogin == InitLogin /\ [][NextLogin]_vars

\* ---- a chat room in use: one tutor and two students, within the first
\* minutes of a chat long enough that its timer does not wake
Init == InitWith(<<"t1", "s1", "s2">>, MaxSteps)

Next ==
    \/ \E c \in Sockets, tok \in Tokens : SessionAuth(c, tok)
    \/ \E c \in Sockets : PeerDrop(c)
    \/ \E c \in Sockets : LoopExit(c)
    \/ \E c \in Sockets : InvalidSession(c)
    \/ \E c \in Sockets, t \in Tutorials : StartChatCheck(c, t, LongDuration)
    \/ \E c \in Sockets : StartChatInsert(c)
    \/ \E c \in Sockets, t \in Tutorials : EndChat(c, t)
    \/ \E c \in Sockets, t \in Tutorials : TutorJoin(c, t)
    \/ \E c \in Sockets, t \in Tutorials : GetAttendance(c, t)
    \/ \E c \in Sockets, t \in Tutorials : JoinChat(c, t)
    \/ \E c \in Sockets, t \in Tutorials : ChatAuth(c, t)
    \/ \E c \in Sockets, t \in Tutorials : ChatMessage(c, t)
    \/ \E c \in Sockets, t \in Tutorials : LeaveChat(c, t)
    \/ Tick(MaxChatTime)

Spec == Init /\ [][Next]_vars

\* ---- chats starting, ending and expiring: two tutors and their timers
InitTimer == InitWith(<<"t1", "t2">>, -1)

NextTimer ==
    \/ \E c \in Sockets, t \in Tutorials, d \in Durations : StartChatCheck(c, t, d)
    \/ \E c \in Sockets : StartChatInsert(c)
    \/ \E c \in Sockets, t \in Tutorials : EndChat(c, t)
    \/ \E k \in ChatIds : TimerWarn(k)
    \/ \E k \in ChatIds : TimerEnd(k)
    \/ Tick(MaxTime)

SpecTimer == InitTimer /\ [][NextTimer]_vars

\* ---- attendance over the minutes of one chat that is not ended: a tutor
\* and a student joining, leaving and losing their connections
InitAttendance == InitWith(<<"t1", "s1">>, -1)

NextAttendance ==
    \/ \E c \in Sockets : PeerDrop(c)
    \/ \E c \in Sockets : LoopExit(c)
    \/ \E c \in Sockets, t \in Tutorials : StartChatCheck(c, t, LongDuration)
    \/ \E c \in Sockets : StartChatInsert(c)
    \/ \E c \in Sockets, t \in Tutorials : JoinChat(c, t)
    \/ \E c \in Sockets, t \in Tutorials : LeaveChat(c, t)
    \/ Tick(MaxChatTime)

SpecAttendance == InitAttendance /\ [][NextAttendance]_vars

\* ---- administration: two admins assigning users to a tutorial that has no
\* assignment yet, and connections re-attached by token
InitAdmin == InitState(<<"a1", "a2">>, -1, {})

NextAdmin ==
    \/ \E c \in Sockets, tok \in Tokens : SessionAuth(c, tok)
    \/ \E c \in Sockets : PeerDrop(c)
    \/ \E c \in Sockets : LoopExit(c)
    \/ \E c \in Sockets, uid \in AssignNames, tid \in Tutorials : AssignCheck(c, uid, tid)
    \/ \E c \in Sockets : AssignInsert(c)

SpecAdmin == InitAdmin /\ [][NextAdmin]_vars

\* ---- joining and leaving: student s2 is not enrolled in the tutorial
InitJoin == InitState(<<"t1", "s1", "s2">>, MaxProtocolSteps, Enrolment \ {<<"s2", "T1">>})

NextJoin ==
    \/ \E c \in Sockets, t \in Tutorials : StartChatCheck(c, t, LongDuration)
    \/ \E c \in Sockets : StartChatInsert(c)
    \/ \E c \in Sockets, t \in Tutorials : EndChat(c, t)
    \/ \E c \in Sockets, t \in Tutorials : TutorJoin(c, t)
    \/ \E c \in Sockets, t \in Tutorials : JoinChat(c, t)
    \/ \E c \in Sockets, t \in Tutorials : ChatAuth(c, t)
    \/ \E c \in Sockets, t \in Tutorials : LeaveChat(c, t)

SpecJoin == InitJoin /\ [][NextJoin]_vars

\* ---- chat connections: a tutor and a student, chats that end at once (a
\* negative duration) or later, JOIN_CHAT interleaved with the other threads
ChatAuthDurations == {d \in Durations : d < 0} \cup {LongDuration}

InitChatAuth == InitWith(<<"t1", "s1">>, MaxSteps)

NextChatAuth ==
    \/ \E c \in Sockets, tok \in Tokens : SessionAuth(c, tok)
    \/ \E c \in Sockets, t \in Tutorials, d \in ChatAuthDurations : StartChatCheck(c, t, d)
    \/ \E c \in Sockets : StartChatInsert(c)
    \/ \E c \in Sockets, t \in Tutorials : EndChat(c, t)
    \/ \E c \in Sockets, t \in Tutorials : JoinChatCheck(c, t)
    \/ \E c \in Sockets : JoinChatAttach(c)
    \/ \E c \in Sockets, t \in Tutorials : ChatAuth(c, t)
    \/ Tick(MaxChatTime)

SpecChatAuth == InitChatAuth /\ [][NextChatAuth]_vars

\* ---- the session registry under logins and end_session calls
InitRegistry == InitWith(<<>>, -1)

NextRegistry ==
    \/ \E c \in 1..MaxLogins, u \in LoginNames, pwok \in BOOLEAN : CredCheck(c, u, pwok)
    \/ \E c \in Sockets : CredCreate(c)
    \/ \E tok \in Tokens : EndSession(tok)

SpecRegistry == InitRegistry /\ [][NextRegistry]_vars

\* ---- the room lock: two tutors, one re-joining its chat through add_socket
\* while the other asks for attendance
InitLock == InitWith(<<"t1", "t2">>, -1)

NextLock ==
    \/ \E c \in Sockets : PeerDrop(c)
    \/ \E c \in Sockets, t \in Tutorials : StartChatCheck(c, t, LongDuration)
    \/ \E c \in Sockets : StartChatInsertLocked(c)
    \/ \E c \in Sockets, t \in Tutorials : TutorJoinEnter(c, t)
    \/ \E c \in Sockets : TutorJoinExit(c)
    \/ \E c \in Sockets, t \in Tutorials : GetAttendance(c, t)

SpecLock == InitLock /\ [][NextLock]_vars

\* ---- the end of a chat: END_CHAT and the expiry of the timer, each in the
\* steps other threads can run between
EndDurations == {d \in Durations : d >= 0 /\ d <= WarnBefore}

InitEnd == InitWith(<<"t1", "s1">>, -1)

NextEnd ==
    \/ \E c \in Sockets, t \in Tutorials, d \in EndDurations : StartChatCheck(c, t, d)
    \/ \E c \in Sockets : StartChatInsert(c)
    \/ \E c \in Sockets, t \in Tutorials : ChatAuth(c, t)
    \/ \E c \in Sockets, t \in Tutorials : EndChatNotify(c, t)
    \/ \E c \in Sockets : EndChatClose(c)
    \/ \E k \in ChatIds : TimerEndCheck(k)
    \/ \E k \in ChatIds : TimerEndFinish(k)
    \/ Tick(MaxTime)

SpecEnd == InitEnd /\ [][NextEnd]_vars

\* ---- messages in a chat room: one tutor and two students joining the chat,
\* attaching chat sockets, losing connections and sending
InitBroadcast == InitWith(<<"t1", "s1", "s2">>, MaxSteps)

NextBroadcast ==
    \/ \E c \in Sockets, tok \in Tokens : SessionAuth(c, tok)
    \/ \E c \in Sockets : PeerDrop(c)
    \/ \E c \in Sockets, t \in Tutorials : StartChatCheck(c, t, LongDuration)
    \/ \E c \in Sockets : StartChatInsert(c)
    \/ \E c \in Sockets, t \in Tutorials : JoinChat(c, t)
    \/ \E c \in Sockets, t \in Tutorials : ChatAuth(c, t)
    \/ \E c \in Sockets, t \in Tutorials : ChatMessage(c, t)

SpecBroadcast == InitBroadcast /\ [][NextBroadcast]_vars

\* ---- the command loops of a tutor and a student: well-formed commands and
\* protocol errors, connections re-attached by token, dropped and left
InitProtocol == InitWith(<<"t1", "s1">>, MaxProtocolSteps)

NextProtocol ==
    \/ \E c \in Sockets, tok \in Tokens : SessionAuth(c, tok)
    \/ \E c \in Sockets : PeerDrop(c)
    \/ \E c \in Sockets : LoopExit(c)
    \/ \E c \in Sockets : InvalidSession(c)
    \/ \E c \in Sockets, tok \in Tokens \cup {NoToken}, t \in Tutorials : ForeignToken(c, tok, t)
    \/ \E c \in Sockets : ReceiveTimeout(c)
    \/ \E c \in Sockets : Malformed(c)
    \/ \E c \in Sockets, cmd \in ArgCommands("tutor") : WrongArity(c, cmd)
    \/ \E c \in Sockets : UnknownCommand(c)
    \/ \E c \in Sockets, t \in Tutorials : StartChatCheck(c, t, LongDuration)
    \/ \E c \in Sockets : StartChatInsert(c)
    \/ \E c \in Sockets, t \in Tutorials : EndChat(c, t)
    \/ \E c \in Sockets, t \in Tutorials : JoinChat(c, t)
    \/ \E c \in Sockets, t \in Tutorials : ChatMessage(c, t)
    \/ \E c \in Sockets, t \in Tutorials : LeaveChat(c, t)

SpecProtocol == InitProtocol /\ [][NextProtocol]_vars

\* ------------------------------------------------------------ properties

\* C1: in every reachable state each user has at most one live session: no
\* user owns two tokens of the registry and no user is served on two
\* credential connections at once, for every interleaving of login attempts.
C1_OneSessionPerUser ==
    \A u \in Users :
        /\ Cardinality({k \in Tokens : session_lookup[k] = u}) <= 1
        /\ Cardinality({c \in Sockets : conn[c].pc = "serving" /\ conn[c].kind = "cred"
                                        /\ conn[c].user = u}) <= 1

\* C2: each tutorial has at most one row in active_chats, and a START_CHAT
\* that finds the tutorial's chat active is answered FAIL:Chat session already
\* active and changes neither the active chats, the rooms, the attendance
\* rows nor the timers; a START_CHAT that passed the check but meets the row
\* at its INSERT changes none of them either.
C2_OneActiveChat ==
    /\ [](\A t \in Tutorials : Cardinality({row \in active_chats : row.tutorial_id = t}) <= 1)
    /\ [][\A c \in Sockets :
            /\ \A t \in Tutorials, d \in Durations :
                 (StartChatCheck(c, t, d) /\ get_active_chat(t) # NoChat) =>
                     /\ out' = Reply(c, "FAIL:Chat session already active")
                     /\ UNCHANGED <<active_chats, rooms, attendance, timers, nextChat>>
            /\ (StartChatInsert(c) /\ get_active_chat(conn[c].tut) # NoChat) =>
                     /\ out'.reply # "CHAT_STARTED"
                     /\ UNCHANGED <<active_chats, rooms, attendance, timers, nextChat>>
         ]_vars

\* C2 witness: a tutor other than the owner of the active chat was just refused.
C2_Witness ==
    \E c \in Sockets, t \in Tutorials :
        /\ out = Reply(c, "FAIL:Chat session already active")
        /\ get_active_chat(t) # NoChat
        /\ get_active_chat(t).tutor_id # conn[c].user

\* C3: the timer of a chat session that was ended with END_CHAT does nothing
\* when it wakes: no WARNING, no CHAT_ENDED, no active chat deleted, no room
\* closed.
C3_EndedChatTimerNoOp ==
    [][\A k \in ChatIds :
          (endedBy[k] = "manual" /\ (TimerWarn(k) \/ TimerEnd(k))) =>
              /\ \A cs \in ChatIds : /\ timers'[cs].warned = timers[cs].warned
                                     /\ timers'[cs].ended = timers[cs].ended
              /\ out'.pushes = {}
              /\ UNCHANGED <<active_chats, rooms, endedBy>>
      ]_vars

\* C4: a CHAT_MESSAGE reaches every other participant holding a live socket
\* on exactly one of its sockets, and no socket of the sender.
C4_DeliveredOnce ==
    [][\A c \in Sockets, t \in Tutorials :
          (ChatMessage(c, t) /\ rooms[t].exists) =>
              \A i \in 1..Len(rooms[t].users) :
                  LET e == rooms[t].users[i]
                      held == {e.primary, e.chat} \ {NoSocket}
                      got == {s \in held : <<s, "MESSAGE">> \in out'.pushes}
                  IN IF e.uid = session_user(conn[c].sid)
                     THEN got = {}
                     ELSE Deliver(held) # {} => Cardinality(got) = 1
      ]_vars

\* C5: total_duration_seconds of an attendance row never decreases, and no
\* step changes it while the student is absent.
C5_DurationMonotonic ==
    [][\A k \in DOMAIN attendance :
          /\ attendance'[k].total_duration_seconds >= attendance[k].total_duration_seconds
          /\ ~attendance[k].is_present =>
                attendance'[k].total_duration_seconds = attendance[k].total_duration_seconds
      ]_vars

\* C5 witness: a student joined, left after some minutes and left again while
\* absent; the row holds the minutes of the visit.
C5_Witness ==
    \E k \in DOMAIN visits :
        /\ Len(visits[k]) = 3
        /\ visits[k][1].ev = "join" /\ visits[k][2].ev = "leave" /\ visits[k][3].ev = "leave"
        /\ attendance[k].total_duration_seconds > 0
        /\ ~attendance[k].is_present

\* C6: after join, LEAVE_CHAT and a second join of the same chat session the
\* row is present, its total is the length of the first visit and
\* first_join_time is the time of the first join.
C6_RejoinKeepsDuration ==
    \A k \in DOMAIN visits :
        (/\ Len(visits[k]) = 3
         /\ visits[k][1].ev = "join" /\ visits[k][2].ev = "leave" /\ visits[k][3].ev = "join") =>
            /\ attendance[k].is_present
            /\ attendance[k].total_duration_seconds = visits[k][2].at - visits[k][1].at
            /\ attendance[k].first_join_time = visits[k][1].at

\* C6 witness: a rejoin after a first visit that lasted some minutes, made
\* later than the leave.
C6_Witness ==
    \E k \in DOMAIN visits :
        /\ Len(visits[k]) = 3
        /\ visits[k][1].ev = "join" /\ visits[k][2].ev = "leave" /\ visits[k][3].ev = "join"
        /\ visits[k][2].at > visits[k][1].at
        /\ visits[k][3].at > visits[k][2].at
        /\ attendance[k].is_present

\* C7: once the command loop of a student's connection has ended on a lost
\* connection, no attendance row of that student is still present.
C7_DisconnectMarksAbsent ==
    \A c \in Sockets :
        (conn[c].pc = "closed" /\ conn[c].user \in Students) =>
            \A cs \in ChatIds : ~attendance[<<cs, conn[c].user>>].is_present

\* C8: every user entry of a room holds at least one socket.
C8_EntryHasSlot ==
    \A t \in Tutorials :
        \A i \in 1..Len(rooms[t].users) :
            rooms[t].users[i].primary # NoSocket \/ rooms[t].users[i].chat # NoSocket

\* C9: a tutorial whose chat session has ended and that has no active chat
\* has no room in the Room Directory.
C9_NoRoomAfterEnd ==
    \A t \in Tutorials :
        (/\ \E k \in ChatIds : endedBy[k] # "none" /\ timers[k].tutorial_id = t
         /\ get_active_chat(t) = NoChat) =>
            ~rooms[t].exists

\* C10: a chat of d >= 0 minutes that is not ended with END_CHAT is ended by
\* its timer d minutes after its start and has ended when its timer is done;
\* if d > 5 exactly one WARNING was sent for it before that, d - 5 minutes
\* after the start; if d <= 5 none is sent for it.
C10_TimerSchedule ==
    \A k \in ChatIds :
        (timers[k].pc # "none" /\ timers[k].duration >= 0 /\ endedBy[k] # "manual") =>
            /\ timers[k].pc = "done" => endedBy[k] = "timer"
            /\ endedBy[k] = "timer" =>
                  /\ timers[k].ended_at = timers[k].started_at + timers[k].duration
                  /\ timers[k].duration > WarnBefore =>
                        /\ timers[k].warned = 1
                        /\ timers[k].warned_at =
                               timers[k].started_at + timers[k].duration - WarnBefore
            /\ timers[k].warned <= 1
            /\ timers[k].duration <= WarnBefore => timers[k].warned = 0

\* C11: every active chat session that is not ended with END_CHAT is ended by
\* its timer: while the session's row exists, its timer thread is alive and
\* asleep until its wake-up, at which it deletes the row and closes the room.
C11_TimerWillEnd ==
    \A row \in active_chats :
        /\ Sleeping(row.chat_session_id)
        /\ timers[row.chat_session_id].tutorial_id = row.tutorial_id

\* C12: a broadcast whose recipients' chat sockets are all live sends the
\* message on exactly those chat sockets and on no primary slot; a broadcast
\* with no successful chat-slot send sends it on the recipients' primary
\* sockets; its return value is true iff some send succeeded.
C12_BroadcastSends ==
    [][\A c \in Sockets, t \in Tutorials :
          ChatMessage(c, t) =>
              LET sender == session_user(conn[c].sid)
                  others == {i \in 1..Len(rooms[t].users) : rooms[t].users[i].uid # sender}
                  chatS == {rooms[t].users[i].chat : i \in others} \ {NoSocket}
                  primS == {rooms[t].users[i].primary : i \in others} \ {NoSocket}
                  sent == {p[1] : p \in out'.pushes}
              IN /\ \A p \in out'.pushes : p[2] = "MESSAGE"
                 /\ (chatS # {} /\ \A x \in chatS : sock[x] = "open") => sent = chatS
                 /\ (\A x \in chatS : sock[x] # "open") =>
                        sent = {x \in primS : sock[x] = "open"}
                 /\ broadcast_chat_message(rooms[t], sender).result <=> sent # {}
      ]_vars

\* C12 witness: a message just went to the chat sockets of two recipients
\* while another participant of the room held a primary socket only.
C12_Witness ==
    \E t \in Tutorials :
        /\ Cardinality(out.pushes) = 2
        /\ \A p \in out.pushes :
              /\ p[2] = "MESSAGE"
              /\ \E i \in 1..Len(rooms[t].users) : rooms[t].users[i].chat = p[1]
        /\ \E i \in 1..Len(rooms[t].users) :
              /\ rooms[t].users[i].chat = NoSocket
              /\ rooms[t].users[i].primary # NoSocket
              /\ sock[rooms[t].users[i].primary] = "open"

\* C13: after a broadcast no slot of the room holds a socket on which a send
\* of that broadcast failed, on the chat-slot attempt or on the primary-slot
\* attempt, and every live socket of the attempt made last got the message.
C13_FailedSendsDetached ==
    [][\A c \in Sockets, t \in Tutorials :
          ChatMessage(c, t) =>
              LET sender == session_user(conn[c].sid)
                  b == broadcast_chat_message(rooms[t], sender)
                  tried == get_chat_sockets(rooms[t], sender) \cup b.primary_tried
                  failed == {x \in tried : sock[x] # "open"}
              IN /\ \A i \in 1..Len(rooms'[t].users) :
                        /\ rooms'[t].users[i].primary \notin failed
                        /\ rooms'[t].users[i].chat \notin failed
                 /\ \A x \in tried \ failed : <<x, "MESSAGE">> \in out'.pushes
      ]_vars

\* C14: END_CHAT deletes the tutorial's active chat and sends CHAT_ENDED to
\* every live socket held in the room, primary and chat slots of every
\* participant alike, and the room is gone afterwards.
C14_EndChatNotifiesAll ==
    [][\A c \in Sockets, t \in Tutorials :
          EndChat(c, t) =>
              /\ get_active_chat(t)' = NoChat
              /\ ~rooms'[t].exists
              /\ \A i \in 1..Len(rooms[t].users) :
                    \A x \in {rooms[t].users[i].primary, rooms[t].users[i].chat} \ {NoSocket} :
                        sock[x] = "open" => <<x, "CHAT_ENDED">> \in out'.pushes
      ]_vars

\* C15: a command read in the serving loop whose leading token is not the
\* connection's own, or whose token names no live session, is answered with
\* FAIL:Invalid session on that connection and nothing else happens: registry,
\* rooms, chats, attendance and timers are unchanged and the connection is
\* still serving on an open socket.
C15_BadTokenRejected ==
    [][\A c \in Sockets :
          (InvalidSession(c) \/ \E tok \in Tokens \cup {NoToken}, t \in Tutorials : ForeignToken(c, tok, t)) =>
              /\ out' = Reply(c, "FAIL:Invalid session")
              /\ UNCHANGED <<regVars, dbVars, rooms, timers, endedBy, visits>>
              /\ Serving(c)'
      ]_vars

\* a serving connection has just been refused a command although another
\* user's session is live and a chat is active
C15_Witness ==
    \E c \in Sockets :
        /\ Serving(c)
        /\ out = Reply(c, "FAIL:Invalid session")
        /\ verify_session(c)
        /\ \E tok \in Tokens : tok # conn[c].sid /\ get_session_by_id(tok) # NoSession
        /\ active_chats # {}

\* C16: when a command handler raises (START_CHAT's INSERT meeting a chat that
\* a racing START_CHAT has just created, LEAVE_CHAT's attendance broadcast on a
\* room without users), the requesting connection is answered with
\* FAIL:Internal error and stays in its command loop on the same socket, and
\* no session is ended.
C16_HandlerExceptionContained ==
    [][\A c \in Sockets :
          \/ StartChatInsert(c) /\ ~insert_allowed(conn[c].tut)
          \/ \E t \in Tutorials : LeaveChat(c, t) /\ attendance_update(t, rooms[t]).raised
          => /\ out'.to = c
             /\ out'.reply = "FAIL:Internal error"
             /\ conn'[c].pc = "serving"
             /\ sock'[c] = sock[c]
             /\ UNCHANGED regVars
      ]_vars

\* a live connection has just been answered FAIL:Internal error and is still
\* in its loop with its session in the registry
C16_Witness ==
    \E c \in Sockets :
        /\ out.to = c
        /\ out.reply = "FAIL:Internal error"
        /\ Serving(c)
        /\ verify_session(c)

\* C17: every command read with the connection's valid token - CHAT_MESSAGE,
\* LEAVE_CHAT and END_CHAT among them - is answered on the requesting
\* connection, with a success value or a FAIL reply.
C17_EveryCommandAnswered ==
    [][\A c \in Sockets :
          (\/ \E t \in Tutorials : EndChat(c, t) \/ ChatMessage(c, t) \/ LeaveChat(c, t)
           \/ \E t \in Tutorials : JoinChat(c, t)
           \/ StartChatInsert(c))
          => /\ out'.to = c
             /\ out'.reply # "none"
      ]_vars

\* C18: a message with fewer than two fields, a known command with arguments
\* missing, and an unknown command are each answered on the connection with a
\* FAIL reply, change nothing in the server, and leave the connection serving.
C18_ProtocolErrorAnswered ==
    [][\A c \in Sockets :
          (\/ Malformed(c)
           \/ \E cmd \in ArgCommands("tutor") : WrongArity(c, cmd)
           \/ UnknownCommand(c))
          => /\ out'.to = c
             /\ out'.reply \in {"FAIL:Invalid command format", "FAIL:Unknown command"}
             /\ UNCHANGED <<conn, sock, regVars, dbVars, rooms, timers>>
      ]_vars

\* C19: a receive timeout on a serving connection does not end its command
\* loop: the connection is still serving on its open socket and no session is
\* ended.
C19_TimeoutNonFatal ==
    [][\A c \in Sockets :
          ReceiveTimeout(c) =>
              /\ conn'[c].pc = "serving"
              /\ sock'[c] = "open"
              /\ UNCHANGED regVars
      ]_vars

\* C20: once the command loop of a connection that was serving a session has
\* ended, that session is no longer in the registry and the connection's
\* socket is closed.
C20_LoopEndCleansUp ==
    \A c \in Sockets :
        (conn[c].pc \in {"closed", "returned"} /\ conn[c].sid # NoToken) =>
            /\ sock[c] = "closed"
            /\ get_session_by_id(conn[c].sid) = NoSession

\* C21: a credential login that fails - malformed login data, unknown user,
\* wrong password, or a user who holds a live session - is answered with a
\* FAIL message on its connection, the connection is closed without ever
\* serving, and the session registry is unchanged.
C21_FailedLoginRejected ==
    [][\A c \in Sockets :
          (\/ CredMalformed(c)
           \/ \E u \in LoginNames, pwok \in BOOLEAN :
                 /\ CredCheck(c, u, pwok)
                 /\ (u \notin Users \/ ~pwok \/ active_sessions[u] # NoSession))
          => /\ out'.to = c
             /\ out'.reply \in {"FAIL:Malformed login data", "FAIL:User not found",
                                "FAIL:Incorrect password", "FAIL:Already logged in"}
             /\ conn'[c].pc = "closed"
             /\ conn'[c].sid = NoToken
             /\ sock'[c] = "closed"
             /\ UNCHANGED regVars
      ]_vars

\* a second login of a user whose session is live has just been refused
C21_Witness ==
    \E c \in Sockets :
        /\ out = Reply(c, "FAIL:Already logged in")
        /\ conn[c].pc = "closed"
        /\ sock[c] = "closed"
        /\ \E u \in Users : active_sessions[u] # NoSession

\* C22: SESSION_AUTH with the token of a live session is answered SUCCESS and
\* the connection serves in the loop of the session's own role, with its
\* socket known to the server as a socket of that user (in the registry's
\* socket index or as the user's chat slot of a room); with a token of no
\* live session it is answered FAIL:Invalid session, the connection is closed
\* and neither registry nor rooms change.
C22_SessionAuth ==
    [][\A c \in Sockets, tok \in Tokens :
          SessionAuth(c, tok) =>
              IF get_session_by_id(tok) # NoSession
              THEN /\ out' = Reply(c, "SUCCESS:Session authenticated")
                   /\ conn'[c].pc = "serving"
                   /\ conn'[c].sid = tok
                   /\ conn'[c].handler = get_user_role(session_user(tok))
                   /\ \/ socket_to_session'[c] = tok
                      \/ \E t \in Tutorials :
                            /\ session_user(tok) \in RoomUsers(rooms'[t])
                            /\ Slots(rooms'[t], session_user(tok)).chat = c
              ELSE /\ out' = Reply(c, "FAIL:Invalid session")
                   /\ conn'[c].pc = "closed"
                   /\ sock'[c] = "closed"
                   /\ UNCHANGED <<regVars, rooms>>
      ]_vars

\* C23: JOIN_CHAT by a student not enrolled in the tutorial, or for a tutorial
\* without an active chat, is answered FAIL and changes nothing: rooms,
\* attendance and the registry are as before and nothing is sent to anyone
\* else.
C23_JoinRefused ==
    [][\A c \in Sockets, t \in Tutorials :
          (JoinChat(c, t) /\ (<<conn[c].user, t>> \notin assignments \/ get_active_chat(t) = NoChat))
          => /\ out'.to = c
             /\ out'.reply \in {"FAIL:Not authorized for this tutorial",
                                "FAIL:No active chat for this tutorial"}
             /\ out'.pushes = {}
             /\ UNCHANGED <<rooms, attendance, regVars>>
      ]_vars

\* a student who is not enrolled has just been refused while the chat of the
\* tutorial is active
C23_Witness ==
    \E c \in Sockets, t \in Tutorials :
        /\ out = Reply(c, "FAIL:Not authorized for this tutorial")
        /\ Serving(c)
        /\ <<conn[c].user, t>> \notin assignments
        /\ get_active_chat(t) # NoChat

\* C24: after LEAVE_CHAT by a present student for a tutorial with an active
\* chat, the student's attendance row is absent with the time since
\* last_seen_time added to the accumulated duration, the student has no entry
\* in the room, no USER_LEFT went to a socket of the leaver, and USER_LEFT went
\* to the other participants: to every live chat socket of theirs, and to
\* their live primary sockets when none of them has a live chat socket.
C24_LeaveChat ==
    [][\A c \in Sockets, t \in Tutorials :
          LET u == session_user(conn[c].sid)
              chat == get_active_chat(t)
              k == <<chat.chat_session_id, u>>
              others == {i \in 1..Len(rooms[t].users) : rooms[t].users[i].uid # u}
              mine == {c} \cup {x \in Sockets : \E i \in 1..Len(rooms[t].users) :
                          /\ rooms[t].users[i].uid = u
                          /\ x \in {rooms[t].users[i].primary, rooms[t].users[i].chat}}
              chats == {x \in Sockets : \E i \in others :
                          rooms[t].users[i].chat = x /\ sock[x] = "open"}
              primaries == {x \in Sockets : \E i \in others :
                          rooms[t].users[i].primary = x /\ sock[x] = "open"}
          IN
          (/\ LeaveChat(c, t)
           /\ chat # NoChat
           /\ u \in Students
           /\ attendance[k].exists /\ attendance[k].is_present)
          => /\ ~attendance'[k].is_present
             /\ attendance'[k].total_duration_seconds =
                    attendance[k].total_duration_seconds + (now - attendance[k].last_seen_time)
             /\ u \notin RoomUsers(rooms'[t])
             /\ \A x \in mine : <<x, "USER_LEFT">> \notin out'.pushes
             /\ \A x \in chats : <<x, "USER_LEFT">> \in out'.pushes
             /\ chats = {} => \A x \in primaries : <<x, "USER_LEFT">> \in out'.pushes
      ]_vars

\* C25: CHAT_AUTH for a tutorial with an active chat makes the sending socket
\* the caller's chat slot and leaves the caller's primary slot as it was,
\* answers CHAT_CONNECTED with the time left until the chat's end_time, never
\* negative, and sends PARTICIPANTS to that socket only; for a tutorial
\* without an active chat it answers FAIL, attaches nothing and sends nothing
\* else.
C25_ChatAuth ==
    [][\A c \in Sockets, t \in Tutorials :
          LET u == session_user(conn[c].sid)
              chat == get_active_chat(t)
              primary == IF u \in RoomUsers(rooms[t]) THEN Slots(rooms[t], u).primary ELSE NoSocket
          IN
          ChatAuth(c, t) =>
              /\ out'.to = c
              /\ IF chat # NoChat
                 THEN /\ u \in RoomUsers(rooms'[t])
                      /\ Slots(rooms'[t], u).chat = c
                      /\ Slots(rooms'[t], u).primary = primary
                      /\ out'.reply = "CHAT_CONNECTED"
                      /\ out'.value >= 0
                      /\ out'.value = (IF chat.end_time > now THEN chat.end_time - now ELSE 0)
                      /\ out'.pushes \subseteq {<<c, "PARTICIPANTS">>}
                 ELSE /\ out'.reply = "FAIL:Chat room not found"
                      /\ rooms'[t] = rooms[t]
                      /\ out'.pushes = {}
      ]_vars

\* C26: GET_ATTENDANCE by a tutor who holds a live chat socket in the
\* tutorial's room sends ATTENDANCE_UPDATE to that chat socket and to no other
\* socket, on whichever connection of the tutor the command arrives.
C26_AttendanceToRequester ==
    [][\A c \in Sockets, t \in Tutorials :
          LET u == session_user(conn[c].sid) IN
          (/\ GetAttendance(c, t)
           /\ u \in RoomUsers(rooms[t])
           /\ Slots(rooms[t], u).chat # NoSocket
           /\ sock[Slots(rooms[t], u).chat] = "open")
          => out'.pushes = {<<Slots(rooms[t], u).chat, "ATTENDANCE_UPDATE">>}
      ]_vars

\* C27: whatever ASSIGN commands the admin connections have issued, every
\* tutorial has at most one assigned user of role tutor.
C27_OneTutorPerTutorial ==
    \A tid \in Tutorials : Cardinality({u \in Tutors : <<u, tid>> \in assignments}) <= 1

\* C28: when a step puts a socket into a slot of a room that held a different
\* socket, the socket that was replaced is closed.
C28_ReplacedSocketClosed ==
    [][\A t \in Tutorials, u \in Users :
          (u \in RoomUsers(rooms[t]) /\ u \in RoomUsers(rooms'[t])) =>
              /\ (/\ Slots(rooms[t], u).primary # NoSocket
                  /\ Slots(rooms'[t], u).primary \notin {NoSocket, Slots(rooms[t], u).primary})
                 => sock'[Slots(rooms[t], u).primary] = "closed"
              /\ (/\ Slots(rooms[t], u).chat # NoSocket
                  /\ Slots(rooms'[t], u).chat \notin {NoSocket, Slots(rooms[t], u).chat})
                 => sock'[Slots(rooms[t], u).chat] = "closed"
      ]_vars

\* C29: end_session of a token in the token index returns true and leaves no
\* trace of the session: the token is out of the token index, its user has no
\* session and no socket is indexed to the token; end_session of a token that
\* is not in the token index (never issued, or ended before, whoever has
\* logged in since) returns false and leaves the registry as it is.
C29_EndSessionIdempotent ==
    [][\A tok \in Tokens :
          EndSession(tok) =>
              IF session_lookup[tok] # NoUser
              THEN /\ out'.reply = "True"
                   /\ session_lookup'[tok] = NoUser
                   /\ active_sessions'[session_lookup[tok]] = NoSession
                   /\ \A s \in Sockets : socket_to_session'[s] # tok
              ELSE /\ out'.reply = "False"
                   /\ UNCHANGED regVars
      ]_vars

\* C30: a handler reads or lazily creates a room's user map only while no
\* other worker is inside a ChatRoomManager operation on the directory.
C30_RoomAccessExclusive ==
    [][\A c \in Sockets, t \in Tutorials :
          (/\ GetAttendance(c, t)
           /\ get_session_by_socket(c) # NoSession
           /\ get_session_by_socket(c).session_id = conn[c].sid)
          => \A c2 \in Sockets \ {c} : conn[c2].pc # "locked"
      ]_vars

\* C31: the ATTENDANCE_UPDATE pushed by a JOIN_CHAT or a LEAVE_CHAT goes only
\* to sockets of tutors, and to the chat socket of every tutor in the room.
C31_AttendanceToTutors ==
    [][\A c \in Sockets, t \in Tutorials :
          (JoinChat(c, t) \/ LeaveChat(c, t))
          => /\ \A p \in out'.pushes :
                   p[2] = "ATTENDANCE_UPDATE" => get_user_role(conn[p[1]].user) = "tutor"
             /\ get_active_chat(t) # NoChat /\ out'.reply # "FAIL:Internal error" =>
                   \A i \in 1..Len(rooms'[t].users) :
                      (/\ get_user_role(rooms'[t].users[i].uid) = "tutor"
                       /\ rooms'[t].users[i].chat # NoSocket
                       /\ sock[rooms'[t].users[i].chat] = "open")
                      => <<rooms'[t].users[i].chat, "ATTENDANCE_UPDATE">> \in out'.pushes
      ]_vars

\* C32: the room of a tutorial that has no active chat session holds no user,
\* however JOIN_CHAT, CHAT_AUTH and the end of the chat interleave.
C32_NoAttachWithoutChat ==
    \A t \in Tutorials :
        get_active_chat(t) = NoChat => Len(rooms[t].users) = 0

\* C33: an END_CHAT from a tutor who did not start the tutorial's active chat
\* session leaves the session and its room as they are and sends no CHAT_ENDED.
C33_EndChatByOwnerOnly ==
    [][\A c \in Sockets, t \in Tutorials :
          (/\ EndChat(c, t)
           /\ get_active_chat(t) # NoChat
           /\ get_active_chat(t).tutor_id # conn[c].user)
          => /\ UNCHANGED <<active_chats, rooms>>
             /\ \A p \in out'.pushes : p[2] # "CHAT_ENDED"
      ]_vars

\* C34: every user entry of a tutorial's room is the tutor who owns the
\* tutorial's active chat session or a student enrolled in the tutorial.
C34_RoomMembersEntitled ==
    \A t \in Tutorials :
        \A u \in RoomUsers(rooms[t]) :
            \/ get_active_chat(t) # NoChat /\ get_active_chat(t).tutor_id = u
            \/ u \in Students /\ t \in get_user_tutorials(u)

\* C35: a CHAT_MESSAGE from a user who has no entry in the tutorial's room
\* delivers no MESSAGE to anyone.
C35_OnlyMembersBroadcast ==
    [][\A c \in Sockets, t \in Tutorials :
          (ChatMessage(c, t) /\ session_user(conn[c].sid) \notin RoomUsers(rooms[t]))
          => \A p \in out'.pushes : p[2] # "MESSAGE"
      ]_vars

\* C36: once a chat session has ended, no attendance record of it is still
\* marked present.
C36_NobodyPresentAfterEnd ==
    \A cs \in ChatIds, u \in Students :
        endedBy[cs] # "none" => ~attendance[<<cs, u>>].is_present

\* C37: a socket that has just been sent CHAT_ENDED is not sent CHAT_ENDED
\* again by the next step that ends the same chat (no chat is started in
\* between): END_CHAT and the timer do not both notify it.
C37_ChatEndedOnce ==
    [][\A s \in Sockets :
          <<s, "CHAT_ENDED">> \in out.pushes => <<s, "CHAT_ENDED">> \notin out'.pushes
      ]_vars

\* C38: every user entry of every room belongs to a user who has a live
\* session in the registry.
C38_RoomMembersLoggedIn ==
    \A t \in Tutorials :
        \A u \in RoomUsers(rooms[t]) : user_has_active_session(u)

C40_RegistryConsistent ==
    /\ \A tok \in Tokens :
          session_lookup[tok] # NoUser =>
              active_sessions[session_lookup[tok]].session_id = tok
    /\ \A s \in Sockets :
          socket_to_session[s] # NoToken =>
              /\ session_lookup[socket_to_session[s]] # NoUser
              /\ active_sessions[session_lookup[socket_to_session[s]]] =
                     [session_id |-> socket_to_session[s], socket |-> s]
    /\ \A u \in Users :
          (\A c \in Sockets : conn[c].user = u => conn[c].pc \in {"closed", "returned"}) =>
              /\ active_sessions[u] = NoSession
              /\ \A tok \in Tokens : session_lookup[tok] # u

====
